---- MODULE Spec2Model ----
(***************************************************************************)
(* GIS-OSS request gateway: rate limiter, role resolution, strict          *)
(* natural-language parser and the /query and /query/natural handlers.     *)
(*                                                                         *)
(* Strings are sequences of tokens (a token is a word or one character),   *)
(* so that strip(), lower(), startswith() and the JSON scan are computed.  *)
(* Rate-limiter token counts are kept multiplied by window_seconds, which  *)
(* makes elapsed * (max_requests / window_seconds) an integer sum.         *)
(***************************************************************************)
EXTENDS Integers, Sequences, FiniteSets, TLC

VARIABLES
    rl_cfg,      \* RateLimiter constructor arguments
    rl_buckets,  \* RateLimiter._buckets: OrderedDict as a sequence, oldest first
    rl_now,      \* time.monotonic()
    rl_last,     \* history: the last check() call and what it saw
    rl_lru,      \* history: identifiers in the order of their last successful check
    rl_fresh,    \* history: successes of an identifier since its bucket was created at rl_now
    rl_rejected, \* history: per identifier, when it was last refused with no check since
    rl_lock,     \* RateLimiter._lock: the thread that holds it
    th,          \* the threads calling check(): position and local variables of each
    th_acct,     \* history: per identifier, successes since its bucket was created
    az_in,       \* resolve_role arguments and what the key store answers
    az_role,     \* resolve_role result
    az_allowed,  \* check_permission results for the resolved role, per permission
    api_settings, \* Settings of the running application
    api_queue,   \* requests still to arrive
    api_req,     \* the request being handled
    api_pc,      \* where its handling stands
    api_dep,     \* index of the next dependency of the endpoint to run
    api_trace,   \* history: the functions called for it, in order
    api_resp,    \* its response
    api_audit,   \* history: the log_query_event calls made for it
    api_conn,    \* the pooled connection of the request
    api_calls,   \* history: spatial helpers called for it
    api_sql,     \* history: statements the helpers sent to PostGIS for it
    api_validated, \* history: calls of StructuredOperationCandidate.model_validate
    pl_in,       \* plan_operation_from_prompt arguments and the provider settings
    pl_pc,       \* where the call stands
    pl_attempt,  \* OllamaPlannerClient: the loop variable attempt
    pl_delay,    \* OllamaPlannerClient: delay_seconds, in milliseconds
    pl_log,      \* history: the requests posted and the sleeps made, in order
    pl_candidate, \* what the provider returned
    pl_out       \* what the call returned or raised

rl_vars == <<rl_cfg, rl_buckets, rl_now, rl_last, rl_lru, rl_fresh>>

th_vars == <<rl_lock, th, th_acct>>

az_vars == <<az_in, az_role, az_allowed>>

api_vars == <<api_settings, api_queue, api_req, api_pc, api_dep, api_trace, api_resp,
              api_audit, api_conn, api_calls, api_sql, api_validated>>

pl_vars == <<pl_in, pl_pc, pl_attempt, pl_delay, pl_log, pl_candidate, pl_out>>

vars == <<rl_vars, th_vars, az_vars, api_vars, pl_vars, rl_rejected>>

Min(a, b) == IF a <= b THEN a ELSE b

(***************************************************************************)
(* Optional values (x | None): None is <<>>, a value v is <<v>>            *)
(***************************************************************************)
None == <<>>

Some(v) == <<v>>

(***************************************************************************)
(* Strings: str.strip(), str.lower(), str.startswith() on token sequences  *)
(***************************************************************************)
Space == " "

\* characters below 32: line feed, NUL and the file separator chr(28)
Newline == "\n"

Nul == "NUL"

FileSeparator == "FS"

\* the characters str.strip() removes; chr(28) is one of them
Whitespace == {Space, Newline, FileSeparator}

\* str.lower() on one token; words written in capitals have a lower-case twin
LowerToken(t) ==
    CASE t = "ADMIN"    -> "admin"
      [] t = "DATABASE" -> "database"
      [] t = "BUFFER"   -> "buffer"
      [] t = "METERS"   -> "meters"
      [] OTHER          -> t

lower(s) == [i \in 1..Len(s) |-> LowerToken(s[i])]

RECURSIVE lstrip(_)
lstrip(s) == IF s # <<>> /\ Head(s) \in Whitespace THEN lstrip(Tail(s)) ELSE s

RECURSIVE rstrip(_)
rstrip(s) ==
    IF s # <<>> /\ s[Len(s)] \in Whitespace THEN rstrip(SubSeq(s, 1, Len(s) - 1)) ELSE s

strip(s) == rstrip(lstrip(s))

startswith(s, prefix) ==
    Len(s) >= Len(prefix) /\ SubSeq(s, 1, Len(prefix)) = prefix

\* all token sequences of length 0..n over the token set T
SeqsUpTo(T, n) == UNION {[1..k -> T] : k \in 0..n}

(***************************************************************************)
(* Roles and permissions (src/security/authorization.py)                   *)
(***************************************************************************)
MaxKeyLen == 3

Role == {"public", "member", "elder", "admin"}

Permission == {"query:public", "query:sensitive", "query:sacred", "export:data"}

KeyTokens == {"admin", "ADMIN", "elder", "member", "public", ":", Space, "x"}

ApiKeys == SeqsUpTo(KeyTokens, MaxKeyLen)

HasRolePrefix(normalized, word) ==
    startswith(normalized, <<word, ":">>) \/ normalized = <<word>>

resolve_role_from_api_key_DefaultsToAdmin(api_key) ==
    LET normalized == lower(strip(api_key))
    IN  IF normalized = <<>> THEN "public"
        ELSE IF HasRolePrefix(normalized, "elder") THEN "elder"
        ELSE IF HasRolePrefix(normalized, "member") THEN "member"
        ELSE IF HasRolePrefix(normalized, "public") THEN "public"
        ELSE "admin"

resolve_role_from_api_key(api_key) ==
    LET normalized == lower(strip(api_key))
    IN  IF normalized = <<>> THEN "public"
        ELSE IF HasRolePrefix(normalized, "admin") THEN "admin"
        ELSE IF HasRolePrefix(normalized, "elder") THEN "elder"
        ELSE IF HasRolePrefix(normalized, "member") THEN "member"
        ELSE IF HasRolePrefix(normalized, "public") THEN "public"
        ELSE "member"

NoRole == "None"

\* raw_role: str | None
normalize_role(raw_role) ==
    IF raw_role = None THEN NoRole
    ELSE LET normalized == lower(strip(raw_role[1]))
         IN  IF \E role \in Role : <<role>> = normalized
             THEN normalized[1]
             ELSE NoRole

\* What governance.api_keys answers for the fingerprint of the key: the query
\* raises, finds no active row, or finds a row with this role column.
StoreAnswers ==
    {[kind |-> "raise"], [kind |-> "no_row"]}
        \cup {[kind |-> "row", role |-> r] :
                 r \in {Some(<<"admin">>), Some(<<Space, "ADMIN">>), Some(<<"member">>),
                        Some(<<"x">>), None}}

\* resolve_role_from_database; "raise" stands for any exception of the cursor
resolve_role_from_database(store, api_key) ==
    LET normalized == strip(api_key)
    IN  IF normalized = <<>> THEN "public"
        ELSE IF store.kind = "raise" THEN "raise"
        ELSE IF store.kind = "no_row" THEN NoRole
        ELSE normalize_role(store.role)

AuthzBackends == {<<"database">>, <<Space, "DATABASE">>, <<"static">>}

UsesDatabase(authz_backend, conn) ==
    lower(strip(authz_backend)) = <<"database">> /\ conn # NoRole

resolve_role(api_key, authz_backend, conn, store) ==
    IF UsesDatabase(authz_backend, conn)
    THEN LET looked == resolve_role_from_database(store, api_key)
             role   == IF looked = "raise" THEN NoRole ELSE looked
         IN  IF role # NoRole THEN role ELSE resolve_role_from_api_key(api_key)
    ELSE resolve_role_from_api_key(api_key)

role_permissions_MemberSeesSacred(role) ==
    CASE role = "public" -> {"query:public"}
      [] role = "member" -> {"query:public", "query:sensitive", "query:sacred"}
      [] role = "elder"  -> {"query:public", "query:sensitive", "query:sacred"}
      [] role = "admin"  -> {"query:public", "query:sensitive", "query:sacred",
                             "export:data"}
      [] OTHER           -> {}

role_permissions(role) ==
    CASE role = "public" -> {"query:public"}
      [] role = "member" -> {"query:public", "query:sensitive"}
      [] role = "elder"  -> {"query:public", "query:sensitive", "query:sacred"}
      [] role = "admin"  -> {"query:public", "query:sensitive", "query:sacred",
                             "export:data"}
      [] OTHER           -> {}

check_permission_Unchecked(user_role, required_permission) == TRUE

check_permission(user_role, required_permission) ==
    required_permission \in role_permissions(user_role)

NoCall == [id |-> "none"]

AzIdle == az_in = NoCall /\ az_role = NoRole /\ az_allowed = NoCall

AzInit ==
    /\ az_in \in [api_key : ApiKeys, authz_backend : AuthzBackends,
                   conn : {NoRole, "conn"}, store : StoreAnswers]
    /\ az_role = NoRole
    /\ az_allowed = NoCall

\* one call of resolve_role
ResolveRole ==
    /\ az_role = NoRole
    /\ az_in # NoCall
    /\ az_role' = resolve_role(az_in.api_key, az_in.authz_backend, az_in.conn, az_in.store)
    /\ UNCHANGED <<az_in, az_allowed>>

\* check_permission(role, permission) called for the resolved role and each
\* permission
CheckPermission ==
    /\ az_role # NoRole
    /\ az_allowed = NoCall
    /\ az_allowed' = [permission \in Permission |-> check_permission(az_role, permission)]
    /\ UNCHANGED <<az_in, az_role>>

(***************************************************************************)
(* Rate limiter (src/security/rate_limit.py)                               *)
(***************************************************************************)
MaxTime == 3

Identifiers == {"a", "b", "c"}

\* burst: int | None
NoBurst == None

NotFresh == -1

RlConfigs ==
    [max_requests : {1, 2}, window_seconds : {1, 2}, burst : {NoBurst, Some(0), Some(3)},
     max_identifiers : {1, 2}, bucket_ttl_seconds : {2, 3}]

\* RateLimiter.__init__: the constructor raises on non-positive arguments
ValidConfig(cfg) ==
    /\ ~(cfg.max_requests <= 0 \/ cfg.window_seconds <= 0)
    /\ ~(cfg.max_identifiers <= 0 \/ cfg.bucket_ttl_seconds <= 0)

\* self.capacity: burst if burst is not None else max_requests
capacity(cfg) == IF cfg.burst # NoBurst THEN cfg.burst[1] ELSE cfg.max_requests

\* bucket["tokens"] holds tokens * window_seconds
Scaled(cfg, tokens) == tokens * cfg.window_seconds

refill_Uncapped(cfg, bucket, now) ==
    LET elapsed == now - bucket.updated
    IN  IF elapsed <= 0
        THEN bucket
        ELSE [bucket EXCEPT !.tokens = bucket.tokens + elapsed * cfg.max_requests,
                            !.updated = now]

\* RateLimiter._refill, in scaled tokens: refill_rate * window_seconds is
\* max_requests
refill(cfg, bucket, now) ==
    LET elapsed == now - bucket.updated
    IN  IF elapsed <= 0
        THEN bucket
        ELSE [bucket EXCEPT
                !.tokens = Min(Scaled(cfg, capacity(cfg)),
                               bucket.tokens + elapsed * cfg.max_requests),
                !.updated = now]

IsStale_StrictlyOlder(cfg, bucket, now) == now - bucket.updated > cfg.bucket_ttl_seconds

IsStale(cfg, bucket, now) == now - bucket.updated >= cfg.bucket_ttl_seconds

evict_stale(cfg, buckets, now) ==
    SelectSeq(buckets, LAMBDA b : ~IsStale(cfg, b, now))

BucketIds(buckets) == {buckets[i].id : i \in 1..Len(buckets)}

BucketIdSeq(buckets) == [i \in 1..Len(buckets) |-> buckets[i].id]

BucketOf(buckets, identifier) ==
    buckets[CHOOSE i \in 1..Len(buckets) : buckets[i].id = identifier]

RemoveId(buckets, identifier) ==
    SelectSeq(buckets, LAMBDA b : b.id # identifier)

\* OrderedDict.popitem(last=False)
popitem_first(buckets) == Tail(buckets)

AtIdentifierCap_OffByOne(cfg, buckets) == Len(buckets) > cfg.max_identifiers

\* if len(self._buckets) >= self.max_identifiers
AtIdentifierCap(cfg, buckets) == Len(buckets) >= cfg.max_identifiers

HasToken_OffByOne(cfg, bucket) == ~(bucket.tokens < 0)

\* not (bucket["tokens"] < 1.0)
HasToken(cfg, bucket) == ~(bucket.tokens < Scaled(cfg, 1))

ReplaceInPlace_MovesToEnd(buckets, bucket) ==
    Append(SelectSeq(buckets, LAMBDA b : b.id # bucket.id), bucket)

\* a tracked bucket is refilled in place, also when the call then raises
ReplaceInPlace(buckets, bucket) ==
    [i \in 1..Len(buckets) |-> IF buckets[i].id = bucket.id THEN bucket ELSE buckets[i]]

StoreMostRecent_NoMoveToEnd(buckets, bucket) ==
    IF bucket.id \in BucketIds(buckets)
    THEN ReplaceInPlace(buckets, bucket)
    ELSE Append(buckets, bucket)

\* self._buckets[identifier] = bucket; self._buckets.move_to_end(identifier)
StoreMostRecent(buckets, bucket) == Append(RemoveId(buckets, bucket.id), bucket)

\* RateLimiter.check under the lock; ok = FALSE stands for RateLimitExceeded
check(cfg, buckets, identifier, now) ==
    LET swept    == evict_stale(cfg, buckets, now)
        tracked  == identifier \in BucketIds(swept)
        kept     == IF ~tracked /\ AtIdentifierCap(cfg, swept)
                    THEN popitem_first(swept) ELSE swept
        bucket0  == IF tracked THEN BucketOf(swept, identifier)
                    ELSE [id |-> identifier, tokens |-> Scaled(cfg, capacity(cfg)),
                          updated |-> now]
        bucket1  == refill(cfg, bucket0, now)
    IN  IF ~HasToken(cfg, bucket1)
        THEN [ok |-> FALSE,
              buckets |-> IF tracked THEN ReplaceInPlace(kept, bucket1) ELSE kept]
        ELSE [ok |-> TRUE,
              buckets |-> StoreMostRecent(kept,
                              [bucket1 EXCEPT !.tokens = bucket1.tokens - Scaled(cfg, 1)])]

(***************************************************************************)
(* Unit tables (src/spatial/postgis_ops.py): the keys of the two dicts     *)
(***************************************************************************)
DISTANCE_TO_METERS ==
    {<<"meter">>, <<"meters">>, <<"metre">>, <<"metres">>, <<"kilometer">>,
     <<"kilometers">>, <<"kilometre">>, <<"kilometres">>, <<"mile">>, <<"miles">>,
     <<"foot">>, <<"feet">>, <<"ft">>, <<"yard">>, <<"yards">>}

AREA_FROM_SQ_METERS ==
    {<<"square_meter">>, <<"square_meters">>, <<"sqm">>, <<"hectare">>, <<"hectares">>,
     <<"acre">>, <<"acres">>, <<"square_kilometer">>, <<"square_kilometers">>, <<"sqkm">>}

(***************************************************************************)
(* Structured operation validator (src/nl/strict_parser.py)                *)
(*                                                                         *)
(* A JSON object is a record of its recognized keys, each None when the    *)
(* key is absent, plus extra = TRUE when it has any other key.  A geometry *)
(* value is "object" (a JSON object) or "string" (any other JSON value).   *)
(***************************************************************************)
ALLOWED_OPERATIONS ==
    {<<"buffer">>, <<"calculate_area">>, <<"find_intersections">>,
     <<"nearest_neighbors">>, <<"transform_crs">>}

\* field types and field validators of StructuredOperationCandidate, whose
\* ConfigDict(extra="forbid") rejects a key it does not declare
CandidateFieldErrors(obj) ==
    (IF obj.extra THEN {"extra_forbidden"} ELSE {})
    \cup (IF obj.operation = None THEN {"operation: Field required"}
          ELSE IF lower(strip(obj.operation[1])) \notin ALLOWED_OPERATIONS
               THEN {"operation: Unsupported operation"}
               ELSE {})
    \cup (IF obj.geometry # None /\ obj.geometry[1] # "object"
          THEN {"geometry: dict_type"} ELSE {})
    \cup (IF obj.geometry_b # None /\ obj.geometry_b[1] # "object"
          THEN {"geometry_b: dict_type"} ELSE {})

normalize_table(value) ==
    IF value = None THEN None
    ELSE IF strip(value[1]) = <<>> THEN None ELSE Some(strip(value[1]))

normalize_units(value) ==
    IF value = None THEN None ELSE Some(lower(strip(value[1])))

\* the model after field validation
CandidateFields(obj) ==
    [operation |-> Some(lower(strip(obj.operation[1]))),
     geometry |-> obj.geometry, geometry_b |-> obj.geometry_b,
     table |-> normalize_table(obj.table), limit |-> obj.limit,
     distance |-> obj.distance, units |-> normalize_units(obj.units),
     srid |-> obj.srid, from_epsg |-> obj.from_epsg, to_epsg |-> obj.to_epsg,
     extra |-> FALSE]

\* the required fields of each operation, as both validations test them
MissingRequired(op, self) ==
    CASE op = <<"buffer">> -> self.geometry = None \/ self.distance = None
      [] op = <<"calculate_area">> -> self.geometry = None
      [] op = <<"find_intersections">> -> self.geometry = None \/ self.geometry_b = None
      [] op = <<"nearest_neighbors">> -> self.geometry = None
      [] op = <<"transform_crs">> ->
            self.geometry = None \/ self.from_epsg = None \/ self.to_epsg = None
      [] OTHER -> FALSE

RequiresMessage(op) ==
    CASE op = <<"buffer">> -> "Buffer requires 'geometry' and 'distance'."
      [] op = <<"calculate_area">> -> "Area calculation requires 'geometry'."
      [] op = <<"find_intersections">> -> "Intersection requires both 'geometry' and 'geometry_b'."
      [] op = <<"nearest_neighbors">> -> "Nearest neighbors requires 'geometry'."
      [] op = <<"transform_crs">> ->
            "CRS transformation requires 'geometry', 'from_epsg', and 'to_epsg'."
      [] OTHER -> "none"

\* StructuredOperationCandidate._validate_requirements: the message raised, or {}
validate_requirements(self) ==
    LET op == self.operation[1]
    IN  IF MissingRequired(op, self) THEN {RequiresMessage(op)}
        ELSE IF op = <<"buffer">> /\ self.units # None
                /\ self.units[1] \notin DISTANCE_TO_METERS
             THEN {"Unsupported distance unit"}
        ELSE IF op = <<"calculate_area">> /\ self.units # None
                /\ self.units[1] \notin AREA_FROM_SQ_METERS
             THEN {"Unsupported area unit"}
        ELSE IF op = <<"nearest_neighbors">> /\ self.limit # None /\ self.limit[1] <= 0
             THEN {"Nearest neighbors requires 'limit' > 0."}
        ELSE {}

\* StructuredOperationCandidate.model_validate: the after-validator runs only
\* when every field validated
model_validate_candidate(obj) ==
    LET fieldErrors == CandidateFieldErrors(obj)
    IN  IF fieldErrors # {}
        THEN [ok |-> FALSE, errors |-> fieldErrors, value |-> obj]
        ELSE LET self == CandidateFields(obj)
                 requirementErrors == validate_requirements(self)
             IN  [ok |-> requirementErrors = {}, errors |-> requirementErrors,
                  value |-> self]

(***************************************************************************)
(* Natural-language extractor (src/nl/strict_parser.py)                    *)
(*                                                                         *)
(* A prompt is a sequence of tokens: "{" and "}", "o" for an "operation"   *)
(* member of an object, and "x" for any other character.  Every object of  *)
(* a prompt that has the operation key carries the fields of the request's *)
(* JSON object.                                                            *)
(***************************************************************************)
JsonTokens == {"{", "}", "o", "x"}

DecodeError == [ok |-> FALSE, end |-> 0, operation |-> FALSE]

\* json.JSONDecoder.raw_decode inside an object: members from index j on
RECURSIVE DecodeMembers(_, _, _)
DecodeMembers(text, j, hasOperation) ==
    IF j > Len(text) THEN DecodeError
    ELSE CASE text[j] = "}" -> [ok |-> TRUE, end |-> j + 1, operation |-> hasOperation]
           [] text[j] = "o" -> DecodeMembers(text, j + 1, TRUE)
           [] text[j] = "{" ->
                LET inner == DecodeMembers(text, j + 1, FALSE)
                IN  IF inner.ok THEN DecodeMembers(text, inner.end, hasOperation)
                    ELSE DecodeError
           [] OTHER -> DecodeError

\* decoder.raw_decode(text[index:]) where text[index] is "{"
raw_decode(text, index) == DecodeMembers(text, index + 1, FALSE)

AdvanceOnSuccess_ByOne(index, end) == index + 1

\* index += consumed
AdvanceOnSuccess(index, end) == end

\* _extract_json_objects: the objects found, each with its start and whether
\* it has the operation key
RECURSIVE ScanObjects(_, _, _)
ScanObjects(text, index, found) ==
    IF ~(index <= Len(text)) THEN found
    ELSE IF text[index] # "{" THEN ScanObjects(text, index + 1, found)
    ELSE LET parsed == raw_decode(text, index)
         IN  IF ~parsed.ok THEN ScanObjects(text, index + 1, found)
             ELSE ScanObjects(text, AdvanceOnSuccess(index, parsed.end),
                              Append(found, [at |-> index, operation |-> parsed.operation]))

extract_json_objects(text) == ScanObjects(text, 1, <<>>)

CouldNotParse == "Could not parse a structured operation JSON object from prompt."

MultipleOperations == "Multiple operation JSON objects found in prompt."

\* parse_natural_query_prompt; obj is the content of the prompt's operation
\* objects; validated counts the calls of model_validate
parse_natural_query_prompt(prompt, obj) ==
    LET candidates == SelectSeq(extract_json_objects(prompt), LAMBDA o : o.operation)
    IN  IF candidates = <<>>
        THEN [ok |-> FALSE, errors |-> {CouldNotParse}, validated |-> 0, value |-> obj]
        ELSE IF Len(candidates) > 1
        THEN [ok |-> FALSE, errors |-> {MultipleOperations}, validated |-> 0, value |-> obj]
        ELSE LET candidate == model_validate_candidate(obj)
             IN  [ok |-> candidate.ok, errors |-> candidate.errors, validated |-> 1,
                  value |-> candidate.value]

(***************************************************************************)
(* QueryRequest (src/api/main.py)                                          *)
(***************************************************************************)
DefaultLimit == 5

MinLimit == 1

MaxLimit == 100

DefaultSrid == 4326

MinEpsg == 1

MaxEpsg == 999999

DefaultTable == <<"data.features">>

OutOfRange(value, lo, hi) == value # None /\ ~(value[1] >= lo /\ value[1] <= hi)

\* Field(..., ge=, le=) constraints and field types of QueryRequest; unknown
\* keys are ignored (pydantic's default)
QueryRequestErrors(data) ==
    (IF data.geometry # None /\ data.geometry[1] # "object"
     THEN {"geometry: dict_type"} ELSE {})
    \cup (IF data.geometry_b # None /\ data.geometry_b[1] # "object"
          THEN {"geometry_b: dict_type"} ELSE {})
    \cup (IF OutOfRange(data.limit, MinLimit, MaxLimit) THEN {"limit: range"} ELSE {})
    \cup (IF data.distance # None /\ ~(data.distance[1] >= 0)
          THEN {"distance: range"} ELSE {})
    \cup (IF OutOfRange(data.srid, MinEpsg, MaxEpsg) THEN {"srid: range"} ELSE {})
    \cup (IF OutOfRange(data.from_epsg, MinEpsg, MaxEpsg)
          THEN {"from_epsg: range"} ELSE {})
    \cup (IF OutOfRange(data.to_epsg, MinEpsg, MaxEpsg) THEN {"to_epsg: range"} ELSE {})

\* the QueryRequest built from valid data: defaults filled in
QueryRequestOf(data) ==
    [operation |-> data.operation,
     geometry |-> data.geometry, geometry_b |-> data.geometry_b,
     table |-> IF data.table = None THEN DefaultTable ELSE data.table[1],
     limit |-> IF data.limit = None THEN DefaultLimit ELSE data.limit[1],
     distance |-> data.distance, units |-> data.units,
     srid |-> IF data.srid = None THEN DefaultSrid ELSE data.srid[1],
     from_epsg |-> data.from_epsg, to_epsg |-> data.to_epsg]

(***************************************************************************)
(* _execute_structured_operation and the spatial helpers it calls          *)
(*                                                                         *)
(* backend is what PostGIS does with the one statement a helper executes:  *)
(* "ok", "no_row" (no row or a NULL), "psycopg_error" or "error" (any      *)
(* other exception).  The result lists the helpers called, the statements  *)
(* executed and the exception raised ("none" when a result is returned).   *)
(***************************************************************************)
BackendOutcomes == {"ok", "no_row", "psycopg_error", "error"}

allowed_query_tables == {<<"data.features">>}

Raised(exc, message, calls, sql) ==
    [exc |-> exc, message |-> message, calls |-> calls, sql |-> sql]

Returned(calls, sql) == Raised("none", "none", calls, sql)

\* cur.execute / fetch of a helper whose NULL result is an error
Executed(helper, backend, emptyMessage) ==
    CASE backend = "ok" -> Returned(<<helper>>, 1)
      [] backend = "no_row" -> Raised("ValueError", emptyMessage, <<helper>>, 1)
      [] backend = "psycopg_error" -> Raised("PsycopgError", "none", <<helper>>, 1)
      [] OTHER -> Raised("Exception", "none", <<helper>>, 1)

\* request.units or default
UnitsOr(units, default) ==
    IF units = None \/ units[1] = <<>> THEN default ELSE units[1]

buffer_geometry(request, backend) ==
    IF request.distance[1] < 0
    THEN Raised("ValueError", "distance must be non-negative.", <<"buffer_geometry">>, 0)
    ELSE IF lower(UnitsOr(request.units, <<"meters">>)) \notin DISTANCE_TO_METERS
    THEN Raised("ValueError", "Unsupported distance unit", <<"buffer_geometry">>, 0)
    ELSE Executed("buffer_geometry", backend, "Buffer operation returned no geometry.")

calculate_area(request, backend) ==
    LET ran == Executed("calculate_area", backend, "Area calculation returned no result.")
    IN  IF ran.exc = "none"
           /\ lower(UnitsOr(request.units, <<"square_meters">>)) \notin AREA_FROM_SQ_METERS
        THEN Raised("ValueError", "Unsupported area unit", <<"calculate_area">>, 1)
        ELSE ran

find_intersections(request, backend) ==
    IF backend = "no_row"
    THEN Returned(<<"find_intersections">>, 1)
    ELSE Executed("find_intersections", backend, "none")

nearest_neighbors(request, backend) ==
    IF request.limit <= 0
    THEN Raised("ValueError", "limit must be greater than zero.", <<"nearest_neighbors">>, 0)
    ELSE IF backend = "no_row"
    THEN Returned(<<"nearest_neighbors">>, 1)
    ELSE Executed("nearest_neighbors", backend, "none")

transform_crs(request, backend) ==
    Executed("transform_crs", backend, "CRS transformation returned no geometry.")

ExecuteMissingRequired_SkipsGeometry(op, request) ==
    MissingRequired(op, [request EXCEPT !.geometry = Some("object")])

TablePermitted_Unchecked(table) == TRUE

\* table = request.table.strip(); table in allowed_query_tables
TablePermitted(table) == strip(table) \in allowed_query_tables

NotPermitted == "Table is not permitted. Allowed tables: data.features."

\* the guard of each branch: if request.geometry is None or ...
ExecuteMissingRequired(op, request) == MissingRequired(op, request)

execute_structured_operation(request, backend) ==
    LET op == lower(request.operation[1])
    IN  IF op \in ALLOWED_OPERATIONS /\ ExecuteMissingRequired(op, request)
        THEN Raised("ValueError", RequiresMessage(op), <<>>, 0)
        ELSE CASE op = <<"buffer">> -> buffer_geometry(request, backend)
               [] op = <<"calculate_area">> -> calculate_area(request, backend)
               [] op = <<"find_intersections">> -> find_intersections(request, backend)
               [] op = <<"nearest_neighbors">> ->
                    IF ~TablePermitted(request.table)
                    THEN Raised("ValueError", NotPermitted, <<>>, 0)
                    ELSE nearest_neighbors(request, backend)
               [] op = <<"transform_crs">> -> transform_crs(request, backend)
               [] OTHER -> Raised("ValueError", "Unsupported operation", <<>>, 0)

(***************************************************************************)
(* The application (src/api/main.py): requests and settings                *)
(***************************************************************************)
MaxOptional == 1

MaxPromptLen == 6

EmptyObject ==
    [operation |-> None, geometry |-> None, geometry_b |-> None, table |-> None,
     limit |-> None, distance |-> None, units |-> None, srid |-> None,
     from_epsg |-> None, to_epsg |-> None, extra |-> FALSE]

OperationValues ==
    {Some(op) : op \in ALLOWED_OPERATIONS} \cup {Some(<<Space, "BUFFER">>), Some(<<"dissolve">>)}

\* the objects with one value of the operation key
ObjectsOf(operation) ==
    [operation : {operation},
     geometry : {None, Some("object"), Some("string")},
     geometry_b : {None, Some("object")},
     table : {None, Some(<<"audit.query_log">>), Some(<<Space>>)},
     limit : {None, Some(0), Some(101)},
     distance : {None, Some(-1), Some(100)},
     units : {None, Some(<<"meters">>), Some(<<Space, "METERS">>), Some(<<"acres">>)},
     srid : {None, Some(0)},
     from_epsg : {None, Some(4326)},
     to_epsg : {None, Some(3857), Some(1000000)},
     extra : BOOLEAN]

Bit(present) == IF present THEN 1 ELSE 0

\* the keys an operation needs: those whose absence MissingRequired reports
NeededFields(operation) ==
    LET full == [geometry |-> Some("object"), geometry_b |-> Some("object"),
                 distance |-> Some(100), from_epsg |-> Some(4326),
                 to_epsg |-> Some(3857)]
    IN  {field \in DOMAIN full :
            /\ operation # None
            /\ MissingRequired(lower(strip(operation[1])), [full EXCEPT ![field] = None])}

\* number of keys of the object other than the needed ones
OptionalCount(obj, needed) ==
    Bit(obj.geometry # None /\ "geometry" \notin needed)
    + Bit(obj.geometry_b # None /\ "geometry_b" \notin needed)
    + Bit(obj.distance # None /\ "distance" \notin needed)
    + Bit(obj.from_epsg # None /\ "from_epsg" \notin needed)
    + Bit(obj.to_epsg # None /\ "to_epsg" \notin needed)
    + Bit(obj.table # None) + Bit(obj.limit # None) + Bit(obj.units # None)
    + Bit(obj.srid # None) + Bit(obj.extra)

\* request bodies: any subset and value of the keys the operation needs, with
\* at most MaxOptional keys besides
JsonObjects ==
    UNION {LET needed == NeededFields(operation)
           IN  {obj \in ObjectsOf(operation) : OptionalCount(obj, needed) <= MaxOptional} :
           operation \in {None} \cup OperationValues}

PlainObject ==
    [EmptyObject EXCEPT !.operation = Some(<<"buffer">>), !.geometry = Some("object"),
                        !.distance = Some(100)]

Prompts == SeqsUpTo(JsonTokens, MaxPromptLen)

PlainPrompt == <<"x", "{", "o", "}">>

\* a request to a route; required is the permission the route's
\* enforce_permission dependency was made with, Permission.QUERY_PUBLIC for
\* /query and /query/natural
Request(endpoint, x_api_key, prompt, obj) ==
    [endpoint |-> endpoint, x_api_key |-> x_api_key, prompt |-> prompt, obj |-> obj,
     required |-> "query:public"]

DefaultSettings ==
    [api_key |-> <<"secret">>, environment |-> <<"production">>,
     enable_audit_log |-> TRUE, rate_limit_enabled |-> TRUE]

AllSettings ==
    [api_key : {<<>>, <<"secret">>}, environment : {<<"test">>, <<"production">>},
     enable_audit_log : BOOLEAN, rate_limit_enabled : BOOLEAN]

\* requests that differ in credential and endpoint only
PlainRequests ==
    {Request(e, k, PlainPrompt, PlainObject) :
        e \in {"query", "natural"}, k \in {<<>>, <<"secret">>, <<"bad">>}}

\* build_rate_limiter: the limiter the settings select
LimiterEnabled(settings) ==
    ~(~settings.rate_limit_enabled \/ lower(settings.environment) \in {<<"test">>, <<"testing">>})

\* the limiter built from the settings: RATE_LIMIT_REQUESTS=1 per window of
\* 60 s, at most 2 identifiers
limiter_config ==
    [max_requests |-> 1, window_seconds |-> 60, burst |-> None,
     max_identifiers |-> 2, bucket_ttl_seconds |-> 3600]

\* hashlib.sha256(...).hexdigest(): an injective tag
sha256(text) == [sha256 |-> text]

rate_limit_identifier(x_api_key) ==
    LET key == strip(x_api_key)
        raw_identifier == IF key = <<>> THEN <<"ip:", "client_host">> ELSE key
    IN  sha256(SubSeq(raw_identifier, 1, Min(Len(raw_identifier), 256)))

NoResponse == [code |-> 0]

Response(code, status, exc, detail) ==
    [code |-> code, status |-> status, exc |-> exc, detail |-> detail]

HTTPException(code, detail) == Response(code, "error", "HTTPException", {detail})

(***************************************************************************)
(* Grounding and evidence of a QueryResponse, after section 4.6 of the     *)
(* specification and the responses tests/unit/api/test_main.py expects     *)
(***************************************************************************)
Evidence(source_kind, source_id, verification) ==
    [source_kind |-> source_kind, source_id |-> source_id, verification |-> verification]

VerificationStatus_Vacuous(evidence) ==
    IF \A i \in DOMAIN evidence : evidence[i].verification = "verified"
    THEN "verified" ELSE "unverified"

\* the verdict over an evidence list; nothing is verified without evidence
VerificationStatus(evidence) ==
    IF evidence # <<>> /\ \A i \in DOMAIN evidence : evidence[i].verification = "verified"
    THEN "verified" ELSE "unverified"

build_grounding_evidence_TrustsTable(request) ==
    IF request.operation = None \/ request.operation[1] = <<>> THEN <<>>
    ELSE IF lower(request.operation[1]) = <<"nearest_neighbors">>
    THEN <<Evidence("queried_table", strip(request.table), "verified")>>
    ELSE <<Evidence("input_geometry", <<"request.geometry">>, "verified")>>

\* the evidence list of a request: the queried table, unverified, for
\* nearest_neighbors; the caller's geometry for the other operations
build_grounding_evidence(request) ==
    IF request.operation = None \/ request.operation[1] = <<>> THEN <<>>
    ELSE IF lower(request.operation[1]) = <<"nearest_neighbors">>
    THEN <<Evidence("queried_table", strip(request.table), "unverified")>>
    ELSE <<Evidence("input_geometry", <<"request.geometry">>, "verified")>>
           \o (IF lower(request.operation[1]) = <<"find_intersections">>
               THEN <<Evidence("input_geometry", <<"request.geometry_b">>, "verified")>>
               ELSE <<>>)

\* QueryResponse(status, message, request, ...)
QueryResponse(status, message, request) ==
    [code |-> 200, status |-> status, exc |-> "none", detail |-> {message},
     evidence |-> build_grounding_evidence(request),
     verification_status |-> VerificationStatus(build_grounding_evidence(request))]

ApiIdle ==
    /\ api_settings = NoCall
    /\ api_queue = <<>>
    /\ api_req = NoCall
    /\ api_pc = "idle"
    /\ api_dep = 0
    /\ api_trace = <<>>
    /\ api_resp = NoResponse
    /\ api_audit = <<>>
    /\ api_conn = "none"
    /\ api_calls = <<>>
    /\ api_sql = 0
    /\ api_validated = 0

\* what arrives: one plain request to a route guarded by any permission, or
\* two plain requests, under any settings; or one request of any content,
\* with the configured key, under the default settings
ApiInit ==
    /\ \/ \E st \in AllSettings, r \in PlainRequests, required \in Permission :
              api_settings = st /\ api_queue = <<[r EXCEPT !.required = required]>>
       \/ \E st \in AllSettings, r1 \in PlainRequests, r2 \in PlainRequests :
              api_settings = st /\ api_queue = <<r1, r2>>
       \/ \E obj \in JsonObjects :
              /\ api_settings = DefaultSettings
              /\ api_queue = <<Request("query", DefaultSettings.api_key, <<>>, obj)>>
       \/ \E obj \in {o \in JsonObjects : o.operation # None} :
              /\ api_settings = DefaultSettings
              /\ api_queue = <<Request("natural", DefaultSettings.api_key, PlainPrompt, obj)>>
       \/ \E prompt \in Prompts :
              /\ api_settings = DefaultSettings
              /\ api_queue = <<Request("natural", DefaultSettings.api_key, prompt, PlainObject)>>
    /\ api_req = NoCall
    /\ api_pc = "idle"
    /\ api_dep = 0
    /\ api_trace = <<>>
    /\ api_resp = NoResponse
    /\ api_audit = <<>>
    /\ api_conn = "none"
    /\ api_calls = <<>>
    /\ api_sql = 0
    /\ api_validated = 0
    /\ rl_cfg = limiter_config
    /\ rl_buckets = <<>>
    /\ rl_now = 0
    /\ rl_last = NoCall
    /\ rl_lru = <<>>
    /\ rl_fresh = [i \in Identifiers |-> NotFresh]

(***************************************************************************)
(* LLM planner (src/llm/planner.py, provider.py, ollama_client.py)         *)
(*                                                                         *)
(* A prompt is a sequence of characters.  One pass of the client's loop    *)
(* posts one request; what comes back is one of AttemptOutcomes.           *)
(***************************************************************************)
MaxRawPromptLen == 3

MaxRetries == 2

PromptChars == {"a", Space, Newline, Nul, FileSeparator}

\* ord(char) < 32
ControlChars == {Newline, Nul, FileSeparator}

ALLOWED_PROMPT_CONTROL_CHARS == {Newline}

InitialDelay == 200

Max(a, b) == IF a >= b THEN a ELSE b

Failure(kind, message) == [kind |-> kind, message |-> message, value |-> EmptyObject]

NoOutcome == Failure("none", "none")

Planned(value) == [kind |-> "operation", message |-> "none", value |-> value]

sanitize_prompt_AnyCharacter(raw_prompt, max_chars) ==
    IF strip(raw_prompt) = <<>> THEN Failure("input", "Prompt is empty.")
    ELSE IF Len(strip(raw_prompt)) > max_chars
    THEN Failure("input", "Prompt exceeds max length.")
    ELSE NoOutcome

\* _sanitize_prompt: the LLMPlannerInputError it raises, or NoOutcome
sanitize_prompt(raw_prompt, max_chars) ==
    LET prompt == strip(raw_prompt)
    IN  IF prompt = <<>> THEN Failure("input", "Prompt is empty.")
        ELSE IF Len(prompt) > max_chars
        THEN Failure("input", "Prompt exceeds max length.")
        ELSE IF \E i \in DOMAIN prompt :
                   prompt[i] \in ControlChars \ ALLOWED_PROMPT_CONTROL_CHARS
        THEN Failure("input", "Prompt contains unsupported control characters.")
        ELSE NoOutcome

\* build_provider: whether llm_provider names the one supported provider
ProviderSupported(settings) == lower(strip(settings.llm_provider)) = <<"ollama">>

Attempts_WithoutFirst(settings) == Max(settings.llm_max_retries, 0)

\* OllamaPlannerClient: attempts = self._max_retries + 1
Attempts(settings) == Max(settings.llm_max_retries, 0) + 1

\* the exceptions the client's except clause names
TransportFailures == {"TimeoutException", "NetworkError", "HTTPStatusError"}

\* exceptions no except clause of the client names: another
\* httpx.TransportError, and data.get on a body that is not an object
Uncaught == {"ProtocolError", "AttributeError"}

\* provider output that is not a JSON object
Malformed == {"response_not_str", "JSONDecodeError", "not_object"}

AttemptOutcomes == TransportFailures \cup Uncaught \cup Malformed \cup {"object"}

MalformedMessage(outcome) ==
    CASE outcome = "response_not_str" -> "Ollama response missing string field 'response'."
      [] outcome = "JSONDecodeError" -> "LLM output is not valid JSON."
      [] OTHER -> "LLM output must be a JSON object."

PlannerCandidates ==
    {PlainObject,
     [PlainObject EXCEPT !.operation = Some(<<Space, "BUFFER">>)],
     [PlainObject EXCEPT !.operation = Some(<<"dissolve">>)],
     [PlainObject EXCEPT !.extra = TRUE],
     [PlainObject EXCEPT !.distance = None]}

PlannerInputs ==
    [prompt : SeqsUpTo(PromptChars, MaxRawPromptLen),
     llm_prompt_max_chars : {2},
     llm_provider : {<<"ollama">>, <<"openai">>},
     llm_max_retries : -1..MaxRetries]

Never == -1

\* no identifier was refused
BkIdle == rl_rejected = [at |-> [i \in Identifiers |-> Never], before |-> Never]

PlIdle ==
    /\ pl_in = NoCall
    /\ pl_pc = "idle"
    /\ pl_attempt = 0
    /\ pl_delay = 0
    /\ pl_log = <<>>
    /\ pl_candidate = EmptyObject
    /\ pl_out = NoOutcome

PlInit ==
    /\ pl_in \in PlannerInputs
    /\ pl_pc = "start"
    /\ pl_attempt = 0
    /\ pl_delay = 0
    /\ pl_log = <<>>
    /\ pl_candidate = EmptyObject
    /\ pl_out = NoOutcome

Posted(outcome) == [ev |-> "post", outcome |-> outcome, ms |-> 0]

Slept(ms) == [ev |-> "sleep", outcome |-> "none", ms |-> ms]

\* plan_operation_from_prompt up to the provider call
PlanStart ==
    /\ pl_pc = "start"
    /\ LET rejected == sanitize_prompt(pl_in.prompt, pl_in.llm_prompt_max_chars)
       IN  IF rejected # NoOutcome
           THEN pl_out' = rejected /\ pl_pc' = "done" /\ pl_delay' = pl_delay
           ELSE IF ~ProviderSupported(pl_in)
           THEN /\ pl_out' = Failure("unavailable", "Unsupported llm_provider.")
                /\ pl_pc' = "done"
                /\ pl_delay' = pl_delay
           ELSE pl_out' = pl_out /\ pl_pc' = "attempt" /\ pl_delay' = InitialDelay
    /\ UNCHANGED <<pl_in, pl_attempt, pl_log, pl_candidate>>

RetriesMalformed(outcome) == outcome \in TransportFailures \cup Malformed

Retries(outcome) == outcome \in TransportFailures

\* one pass of the loop of generate_structured_operation, and what
\* plan_operation_from_prompt does with an exception that leaves it
Attempt ==
    /\ pl_pc = "attempt"
    /\ \E outcome \in AttemptOutcomes, candidate \in PlannerCandidates :
          LET last == pl_attempt >= Attempts(pl_in) - 1
              sleeps == Retries(outcome) /\ ~last
          IN  /\ outcome # "object" => candidate = PlainObject
              /\ pl_log' = pl_log \o <<Posted(outcome)>>
                             \o (IF sleeps THEN <<Slept(pl_delay)>> ELSE <<>>)
              /\ pl_delay' = IF sleeps THEN pl_delay * 2 ELSE pl_delay
              /\ pl_attempt' = IF sleeps THEN pl_attempt + 1 ELSE pl_attempt
              /\ pl_candidate' = IF outcome = "object" THEN candidate ELSE pl_candidate
              /\ pl_pc' = IF sleeps THEN "attempt"
                          ELSE IF outcome = "object" THEN "validate" ELSE "done"
              /\ pl_out' =
                   CASE sleeps \/ outcome = "object" -> pl_out
                     [] Retries(outcome) -> Failure("unavailable", "LLM provider unavailable.")
                     [] outcome \in Malformed -> Failure("output", MalformedMessage(outcome))
                     [] OTHER -> Failure("output", "LLM planner call failed.")
    /\ UNCHANGED pl_in

\* validate_structured_operation_payload(candidate) and the except around it
Validate ==
    /\ pl_pc = "validate"
    /\ LET validated == model_validate_candidate(pl_candidate)
       IN  pl_out' = IF validated.ok THEN Planned(validated.value)
                     ELSE [kind |-> "output", message |-> "NaturalQueryParseError",
                           value |-> EmptyObject]
    /\ pl_pc' = "done"
    /\ UNCHANGED <<pl_in, pl_attempt, pl_delay, pl_log, pl_candidate>>

PlNext ==
    \/ PlanStart /\ UNCHANGED <<rl_vars, th_vars, az_vars, api_vars, rl_rejected>>
    \/ Attempt /\ UNCHANGED <<rl_vars, th_vars, az_vars, api_vars, rl_rejected>>
    \/ Validate /\ UNCHANGED <<rl_vars, th_vars, az_vars, api_vars, rl_rejected>>

(***************************************************************************)
(* RateLimiter.check called by several threads (src/security/rate_limit.py)*)
(*                                                                         *)
(* A call reads the clock, takes the lock, sweeps, finds or makes its      *)
(* bucket and refills it, then decides and leaves the with block.          *)
(***************************************************************************)
Threads == {"t1", "t2"}

NoThread == "none"

NoBucket == [id |-> "none", tokens |-> 0, updated |-> 0]

IdleThread ==
    [pc |-> "idle", id |-> "none", now |-> 0, tracked |-> FALSE, bucket |-> NoBucket]

NoAccount == [spent |-> 0, pure |-> FALSE]

ThIdle ==
    /\ rl_lock = NoThread
    /\ th = <<>>
    /\ th_acct = <<>>

\* the limiters the threads share
ThreadConfigs ==
    [max_requests : {1, 2}, window_seconds : {1}, burst : {NoBurst},
     max_identifiers : {1, 2}, bucket_ttl_seconds : {2}]

ThreadIdentifiers == {"a", "b"}

ThInit ==
    /\ rl_cfg \in ThreadConfigs
    /\ rl_buckets = <<>>
    /\ rl_now = 0
    /\ rl_last = NoCall
    /\ rl_lru = <<>>
    /\ rl_fresh = [i \in Identifiers |-> NotFresh]
    /\ rl_lock = NoThread
    /\ th = [t \in Threads |-> IdleThread]
    /\ th_acct = [i \in Identifiers |-> NoAccount]

\* now = time.monotonic(), before the lock is taken
ThReadClock(t, identifier) ==
    /\ th[t].pc = "idle"
    /\ th' = [th EXCEPT ![t] = [IdleThread EXCEPT !.pc = "acquire", !.id = identifier,
                                                   !.now = rl_now]]
    /\ UNCHANGED <<rl_cfg, rl_buckets, rl_now, rl_last, rl_lru, rl_fresh, rl_lock, th_acct>>

LockFree_Always(lock) == TRUE

\* threading.Lock.acquire: blocks while another thread holds the lock
LockFree(lock) == lock = NoThread

\* with self._lock:
ThAcquire(t) ==
    /\ th[t].pc = "acquire"
    /\ LockFree(rl_lock)
    /\ rl_lock' = t
    /\ th' = [th EXCEPT ![t].pc = "locked"]
    /\ UNCHANGED <<rl_cfg, rl_buckets, rl_now, rl_last, rl_lru, rl_fresh, th_acct>>

\* self._evict_stale(now) ... self._refill(bucket, now): the bucket of a
\* tracked identifier is refilled in place
ThRefill(t) ==
    /\ th[t].pc = "locked"
    /\ LET identifier == th[t].id
           now     == th[t].now
           swept   == evict_stale(rl_cfg, rl_buckets, now)
           tracked == identifier \in BucketIds(swept)
           kept    == IF ~tracked /\ AtIdentifierCap(rl_cfg, swept)
                      THEN popitem_first(swept) ELSE swept
           bucket0 == IF tracked THEN BucketOf(swept, identifier)
                      ELSE [id |-> identifier, tokens |-> Scaled(rl_cfg, capacity(rl_cfg)),
                            updated |-> now]
           bucket1 == refill(rl_cfg, bucket0, now)
       IN  /\ rl_buckets' = IF tracked THEN ReplaceInPlace(kept, bucket1) ELSE kept
           /\ th' = [th EXCEPT ![t].pc = "decide", ![t].tracked = tracked,
                               ![t].bucket = bucket1]
           /\ th_acct' = [i \in Identifiers |->
                             IF i \notin BucketIds(kept) THEN NoAccount
                             ELSE IF i = identifier /\ bucket1 # bucket0
                             THEN [th_acct[i] EXCEPT !.pure = FALSE]
                             ELSE th_acct[i]]
    /\ UNCHANGED <<rl_cfg, rl_now, rl_last, rl_lru, rl_fresh, rl_lock>>

\* if bucket["tokens"] < 1.0: raise ... else spend a token and store the
\* bucket; either way the with block is left and the lock released
ThDecide(t) ==
    /\ th[t].pc = "decide"
    /\ LET bucket == th[t].bucket
           ok     == HasToken(rl_cfg, bucket)
           spent  == [bucket EXCEPT !.tokens = bucket.tokens - Scaled(rl_cfg, 1)]
       IN  /\ rl_buckets' = IF ok THEN StoreMostRecent(rl_buckets, spent) ELSE rl_buckets
           /\ th' = [th EXCEPT ![t] = IdleThread]
           /\ th_acct' =
                IF ~ok THEN th_acct
                ELSE IF th[t].tracked
                THEN [th_acct EXCEPT ![bucket.id].spent = th_acct[bucket.id].spent + 1]
                ELSE [th_acct EXCEPT ![bucket.id] = [spent |-> 1, pure |-> TRUE]]
    /\ rl_lock' = NoThread
    /\ UNCHANGED <<rl_cfg, rl_now, rl_last, rl_lru, rl_fresh>>

\* the monotonic clock advances while calls are in flight
ThTick ==
    /\ rl_now < MaxTime
    /\ rl_now' = rl_now + 1
    /\ UNCHANGED <<rl_cfg, rl_buckets, rl_last, rl_lru, rl_fresh, th_vars>>

ThNext ==
    \/ \E t \in Threads, identifier \in ThreadIdentifiers :
          ThReadClock(t, identifier) /\ UNCHANGED <<az_vars, api_vars, pl_vars, rl_rejected>>
    \/ \E t \in Threads : ThAcquire(t) /\ UNCHANGED <<az_vars, api_vars, pl_vars, rl_rejected>>
    \/ \E t \in Threads : ThRefill(t) /\ UNCHANGED <<az_vars, api_vars, pl_vars, rl_rejected>>
    \/ \E t \in Threads : ThDecide(t) /\ UNCHANGED <<az_vars, api_vars, pl_vars, rl_rejected>>
    \/ ThTick /\ UNCHANGED <<az_vars, api_vars, pl_vars, rl_rejected>>

InitThreads == ThInit /\ AzIdle /\ ApiIdle /\ PlIdle /\ BkIdle

SpecThreads == InitThreads /\ [][ThNext]_vars

RlInit ==
    /\ rl_cfg \in {cfg \in RlConfigs : ValidConfig(cfg)}
    /\ rl_buckets = <<>>
    /\ rl_now = 0
    /\ rl_last = NoCall
    /\ rl_lru = <<>>
    /\ rl_fresh = [i \in Identifiers |-> NotFresh]

RlIdle ==
    /\ rl_cfg = NoCall
    /\ rl_buckets = <<>>
    /\ rl_now = 0
    /\ rl_last = NoCall
    /\ rl_lru = <<>>
    /\ rl_fresh = [i \in Identifiers |-> NotFresh]

\* one call of RateLimiter.check(identifier) by a single caller
RlCheck(identifier) ==
    LET swept   == evict_stale(rl_cfg, rl_buckets, rl_now)
        tracked == identifier \in BucketIds(swept)
        r       == check(rl_cfg, rl_buckets, identifier, rl_now)
        k       == IF tracked THEN rl_fresh[identifier] ELSE 0
    IN  /\ rl_buckets' = r.buckets
        /\ rl_last' = [id |-> identifier, ok |-> r.ok, now |-> rl_now,
                       before |-> rl_buckets, swept |-> swept, tracked |-> tracked,
                       lru |-> rl_lru, k |-> k]
        /\ rl_lru' = IF r.ok
                     THEN Append(SelectSeq(rl_lru, LAMBDA i : i # identifier), identifier)
                     ELSE rl_lru
        /\ rl_fresh' = [i \in Identifiers |->
                          IF i \notin BucketIds(r.buckets) THEN NotFresh
                          ELSE IF i # identifier THEN rl_fresh[i]
                          ELSE IF k = NotFresh THEN NotFresh
                          ELSE IF r.ok THEN k + 1 ELSE k]
        /\ UNCHANGED <<rl_cfg, rl_now>>

\* the monotonic clock advances
RlTick ==
    /\ rl_now < MaxTime
    /\ rl_now' = rl_now + 1
    /\ rl_fresh' = [i \in Identifiers |-> NotFresh]
    /\ UNCHANGED <<rl_cfg, rl_buckets, rl_last, rl_lru>>

RlNext ==
    \/ \E identifier \in Identifiers : RlCheck(identifier) /\ UNCHANGED <<th_vars, az_vars, api_vars, pl_vars, rl_rejected>>
    \/ RlTick /\ UNCHANGED <<th_vars, az_vars, api_vars, pl_vars, rl_rejected>>

\* check(identifier) by a caller that is refused now and may come back
\* later: at is when each identifier was last refused with no check of it
\* since, before its value for the identifier ahead of this call
RlCheckAgain(identifier) ==
    /\ RlCheck(identifier)
    /\ rl_rejected' = [at |-> [rl_rejected.at EXCEPT
                                 ![identifier] = IF rl_last'.ok THEN Never ELSE rl_now],
                       before |-> rl_rejected.at[identifier]]

BkNext ==
    \/ \E identifier \in ThreadIdentifiers :
          RlCheckAgain(identifier) /\ UNCHANGED <<th_vars, az_vars, api_vars, pl_vars>>
    \/ RlTick /\ UNCHANGED <<th_vars, az_vars, api_vars, pl_vars, rl_rejected>>

InitBackoff == RlInit /\ ThIdle /\ AzIdle /\ ApiIdle /\ PlIdle /\ BkIdle

SpecBackoff == InitBackoff /\ [][BkNext]_vars

InitLimiter == RlInit /\ ThIdle /\ AzIdle /\ ApiIdle /\ PlIdle /\ BkIdle

SpecLimiter == InitLimiter /\ [][RlNext]_vars

AzNext ==
    \/ ResolveRole /\ UNCHANGED <<rl_vars, th_vars, api_vars, pl_vars, rl_rejected>>
    \/ CheckPermission /\ UNCHANGED <<rl_vars, th_vars, api_vars, pl_vars, rl_rejected>>

InitAuthz == AzInit /\ RlIdle /\ ThIdle /\ ApiIdle /\ PlIdle /\ BkIdle

SpecAuthz == InitAuthz /\ [][AzNext]_vars

InitPlanner == PlInit /\ RlIdle /\ ThIdle /\ AzIdle /\ ApiIdle /\ BkIdle

SpecPlanner == InitPlanner /\ [][PlNext]_vars

(***************************************************************************)
(* Claims about role resolution                                            *)
(***************************************************************************)
LookupFailed ==
    /\ az_role # NoRole
    /\ UsesDatabase(az_in.authz_backend, az_in.conn)
    /\ strip(az_in.api_key) # <<>>
    /\ \/ az_in.store.kind \in {"raise", "no_row"}
       \/ az_in.store.kind = "row" /\ normalize_role(az_in.store.role) = NoRole

\* C1: when the persisted lookup fails (no active row, unknown role value or
\* the store raises), the role resolve_role returns is never above member.
C1_FallbackNeverAboveMember ==
    LookupFailed => az_role \in {"public", "member"}

(***************************************************************************)
(* The application: handling of one request                                *)
(***************************************************************************)
\* the Depends(...) parameters of query and query_natural, which FastAPI
\* resolves in the order of declaration before it calls the endpoint
Dependencies ==
    <<"require_api_key", "enforce_rate_limit", "enforce_permission", "get_db_connection">>

AtDependency(name) ==
    /\ api_pc = "dependencies"
    /\ api_dep <= Len(Dependencies)
    /\ Dependencies[api_dep] = name

\* the dependency returned: on to the next one, then to the request body
Proceed ==
    /\ api_dep' = api_dep + 1
    /\ api_pc' = IF api_dep + 1 > Len(Dependencies) THEN "validate_body" ELSE "dependencies"
    /\ api_resp' = api_resp

\* an exception ends the handling; an open connection is released first
Fail(response) ==
    /\ api_resp' = response
    /\ api_pc' = IF api_conn = "open" THEN "teardown" ELSE "done"
    /\ api_dep' = api_dep

\* the next request arrives
Arrive ==
    /\ api_pc \in {"idle", "done"}
    /\ api_queue # <<>>
    /\ api_req' = Head(api_queue)
    /\ api_queue' = Tail(api_queue)
    /\ api_pc' = "dependencies"
    /\ api_dep' = 1
    /\ api_trace' = <<>>
    /\ api_resp' = NoResponse
    /\ api_audit' = <<>>
    /\ api_conn' = "none"
    /\ api_calls' = <<>>
    /\ api_sql' = 0
    /\ api_validated' = 0
    /\ UNCHANGED <<api_settings, rl_vars>>

IsTestEnvironment(settings) == lower(settings.environment) \in {<<"test">>, <<"testing">>}

RequireApiKey ==
    /\ AtDependency("require_api_key")
    /\ api_trace' = Append(api_trace, "require_api_key")
    /\ LET expected == strip(api_settings.api_key)
       IN  IF ~IsTestEnvironment(api_settings) /\ expected = <<>>
           THEN Fail(HTTPException(500, "API key not configured."))
           ELSE IF expected # <<>> /\ api_req.x_api_key # expected
           THEN Fail(HTTPException(401, "Invalid API key."))
           ELSE Proceed
    /\ UNCHANGED <<api_settings, api_queue, api_req, api_audit, api_conn, api_calls,
                   api_sql, api_validated, rl_vars>>

EnforceRateLimit ==
    /\ AtDependency("enforce_rate_limit")
    /\ api_trace' = Append(api_trace, "enforce_rate_limit")
    /\ IF LimiterEnabled(api_settings)
       THEN LET r == check(rl_cfg, rl_buckets, rate_limit_identifier(api_req.x_api_key),
                           rl_now)
            IN  /\ rl_buckets' = r.buckets
                /\ IF r.ok THEN Proceed
                   ELSE Fail(HTTPException(429, "Rate limit exceeded."))
       ELSE rl_buckets' = rl_buckets /\ Proceed
    /\ UNCHANGED <<api_settings, api_queue, api_req, api_audit, api_conn, api_calls,
                   api_sql, api_validated, rl_cfg, rl_now, rl_last, rl_lru, rl_fresh>>

\* the checker made by enforce_permission(required)
EnforcePermission ==
    /\ AtDependency("enforce_permission")
    /\ api_trace' = Append(api_trace, "enforce_permission")
    /\ IF ~check_permission(resolve_role_from_api_key(api_req.x_api_key), api_req.required)
       THEN Fail(HTTPException(403, "Insufficient permissions for this operation."))
       ELSE Proceed
    /\ UNCHANGED <<api_settings, api_queue, api_req, api_audit, api_conn, api_calls,
                   api_sql, api_validated, rl_vars>>

\* get_db_connection: connection_context up to its yield; getconn may raise
GetDbConnection ==
    /\ AtDependency("get_db_connection")
    /\ api_trace' = Append(api_trace, "get_db_connection")
    /\ \E got \in BOOLEAN :
          IF got
          THEN api_conn' = "open" /\ Proceed
          ELSE api_conn' = api_conn /\ Fail(Response(500, "error", "Exception", {}))
    /\ UNCHANGED <<api_settings, api_queue, api_req, api_audit, api_calls, api_sql,
                   api_validated, rl_vars>>

\* FastAPI validates the body against the endpoint's model once the
\* dependencies have run: QueryRequest for /query, NaturalQueryRequest
\* (prompt and two flags) for /query/natural
ValidateBody ==
    /\ api_pc = "validate_body"
    /\ api_trace' = Append(api_trace, "validate_body")
    /\ LET errors == IF api_req.endpoint = "query" THEN QueryRequestErrors(api_req.obj)
                     ELSE {}
       IN  IF errors # {}
           THEN Fail(Response(422, "error", "RequestValidationError", errors))
           ELSE api_pc' = "endpoint" /\ api_resp' = api_resp /\ api_dep' = api_dep
    /\ UNCHANGED <<api_settings, api_queue, api_req, api_audit, api_conn, api_calls,
                   api_sql, api_validated, rl_vars>>

(***************************************************************************)
(* Audit recorder (src/governance/audit_logger.py, _write_audit_log)       *)
(*                                                                         *)
(* A SHA-256 digest is the opaque value "sha256" of its preimage.  An      *)
(* error message is the set of its texts with the request values that the  *)
(* f-strings of those texts interpolate.                                   *)
(***************************************************************************)
hash_identifier_Cleartext(value) == [kind |-> "cleartext", of |-> value]

hash_identifier(value) ==
    [kind |-> "sha256", of |-> IF strip(value) = <<>> THEN <<"anonymous">> ELSE strip(value)]

redacted_query_text(prompt) ==
    [kind |-> "redacted:sha256", of |-> strip(prompt), len |-> Len(strip(prompt))]

\* type and presence of coordinates of a dict, None for anything else
summarize_geometry(value) ==
    IF value = None \/ value[1] # "object" THEN None
    ELSE Some([type |-> "type", has_coordinates |-> TRUE])

NoMessage == [text |-> {}, values |-> {}]

\* str(exc) of the errors raised for data
StrExc(messages, data) ==
    [text |-> messages,
     values |->
        (IF messages \cap {"operation: Unsupported operation", "Unsupported operation"} # {}
         THEN {data.operation[1]} ELSE {})
        \cup (IF messages \cap {"Unsupported distance unit", "Unsupported area unit"} # {}
              THEN {data.units[1]} ELSE {})
        \cup (IF NotPermitted \in messages THEN {strip(data.table)} ELSE {})]

query_data_sources(request) ==
    IF request.operation # None /\ lower(request.operation[1]) = <<"nearest_neighbors">>
       /\ strip(request.table) # <<>>
    THEN {strip(request.table)}
    ELSE {}

\* _redact_metadata(_audit_metadata(request))
redact_metadata(request) ==
    [operation |-> request.operation, table |-> request.table, limit |-> request.limit,
     distance |-> request.distance, units |-> request.units, srid |-> request.srid,
     from_epsg |-> request.from_epsg, to_epsg |-> request.to_epsg,
     geometry_summary |-> summarize_geometry(request.geometry),
     geometry_b_summary |-> summarize_geometry(request.geometry_b)]

\* the row log_query_event inserts; stored is whether the insert succeeded
log_query_event(user_identifier, prompt, query_type, status, error_message, data_sources, metadata, stored) ==
    [user_id |-> hash_identifier(user_identifier),
     query_text |-> redacted_query_text(prompt),
     query_type |-> query_type, status |-> status, error_message |-> error_message,
     data_sources |-> data_sources, metadata |-> metadata, stored |-> stored]

\* _write_audit_log: the log_query_event calls it makes (none when the audit
\* log is disabled) for the call of an endpoint and its QueryRequest
write_audit_log(settings, call, request, status, error_message, stored) ==
    IF ~settings.enable_audit_log THEN <<>>
    ELSE <<log_query_event(call.x_api_key, call.prompt,
                           IF request.operation # None /\ request.operation[1] # <<>>
                           THEN lower(request.operation[1]) ELSE <<"nl_pending">>,
                           status, error_message, query_data_sources(request),
                           redact_metadata(request), stored)>>

AuditTrace(settings) ==
    IF ~settings.enable_audit_log THEN <<>> ELSE <<"log_query_event">>

BackendRejected == "Invalid geometry, CRS, or query parameters."

\* the try/except around _execute_structured_operation, shared by the two
\* endpoints: ran is its result, before the trace up to the call
Dispatch(request, before, backend, stored, message) ==
    LET ran == execute_structured_operation(request, backend)
        status == CASE ran.exc = "ValueError" -> "invalid_parameters"
                    [] ran.exc = "PsycopgError" -> "db_error"
                    [] ran.exc = "none" -> "completed"
                    [] OTHER -> "unaudited"
        audit == IF status = "unaudited" THEN <<>>
                 ELSE write_audit_log(api_settings, api_req, request, status,
                                      CASE ran.exc = "ValueError" ->
                                               StrExc({ran.message}, request)
                                        [] ran.exc = "PsycopgError" ->
                                               StrExc({BackendRejected}, request)
                                        [] OTHER -> NoMessage,
                                      stored)
    IN  /\ api_calls' = ran.calls
        /\ api_sql' = ran.sql
        /\ api_audit' = api_audit \o audit
        /\ api_trace' = before \o <<"_execute_structured_operation">> \o ran.calls
                          \o (IF audit = <<>> THEN <<>> ELSE <<"log_query_event">>)
        /\ api_resp' =
             CASE ran.exc = "ValueError" -> Response(400, "error", "ValueError", {ran.message})
               [] ran.exc = "PsycopgError" ->
                    Response(400, "error", "PsycopgError", {BackendRejected})
               [] ran.exc = "none" -> QueryResponse("completed", message, request)
               [] OTHER -> Response(500, "error", ran.exc, {})

\* if request.operation: a non-empty string
OperationGiven(request) == request.operation # None /\ request.operation[1] # <<>>

\* POST /query
Query ==
    /\ api_pc = "endpoint"
    /\ api_req.endpoint = "query"
    /\ api_pc' = "teardown"
    /\ \E backend \in BackendOutcomes, stored \in BOOLEAN :
          LET request == QueryRequestOf(api_req.obj)
          IN  IF OperationGiven(request)
              THEN Dispatch(request, api_trace, backend, stored,
                            "Structured operation executed successfully.")
              ELSE /\ api_audit' = api_audit \o write_audit_log(api_settings, api_req, request,
                                                              "pending", NoMessage, stored)
                   /\ api_trace' = api_trace \o AuditTrace(api_settings)
                   /\ api_resp' = QueryResponse("pending",
                                                 "LLM orchestration not yet implemented.",
                                                 request)
                   /\ UNCHANGED <<api_calls, api_sql>>
    /\ UNCHANGED <<api_settings, api_queue, api_req, api_dep, api_conn, api_validated, rl_vars>>

\* POST /query/natural
QueryNatural ==
    /\ api_pc = "endpoint"
    /\ api_req.endpoint = "natural"
    /\ api_pc' = "teardown"
    /\ \E backend \in BackendOutcomes, stored \in BOOLEAN :
          LET parsed == parse_natural_query_prompt(api_req.prompt, api_req.obj)
              before == api_trace \o <<"parse_natural_query_prompt">>
                          \o (IF parsed.validated > 0
                              THEN <<"StructuredOperationCandidate.model_validate">>
                              ELSE <<>>)
          IN  /\ api_validated' = parsed.validated
              /\ IF ~parsed.ok
                 THEN /\ api_audit' = api_audit
                                        \o write_audit_log(api_settings, api_req,
                                                           QueryRequestOf(EmptyObject),
                                                           "parse_error",
                                                           StrExc(parsed.errors, parsed.value),
                                                           stored)
                      /\ api_trace' = before \o AuditTrace(api_settings)
                      /\ api_resp' = Response(400, "error", "NaturalQueryParseError",
                                              parsed.errors)
                      /\ UNCHANGED <<api_calls, api_sql>>
                 ELSE IF QueryRequestErrors(parsed.value) # {}
                 THEN /\ api_trace' = before \o <<"QueryRequest.model_validate">>
                      /\ api_resp' = Response(500, "error", "ValidationError",
                                              QueryRequestErrors(parsed.value))
                      /\ UNCHANGED <<api_audit, api_calls, api_sql>>
                 ELSE Dispatch(QueryRequestOf(parsed.value),
                               before \o <<"QueryRequest.model_validate">>, backend, stored,
                               "Natural-language query parsed and executed successfully.")
    /\ UNCHANGED <<api_settings, api_queue, api_req, api_dep, api_conn, rl_vars>>

\* connection_context after its yield: commit when the endpoint returned,
\* rollback when an exception came out of it; the connection goes back to the pool
ReleaseConnection ==
    /\ api_pc = "teardown"
    /\ api_conn' = IF api_conn # "open" THEN api_conn
                   ELSE IF api_resp.exc = "none" THEN "committed" ELSE "rolled_back"
    /\ api_pc' = "done"
    /\ UNCHANGED <<api_settings, api_queue, api_req, api_dep, api_trace, api_resp,
                   api_audit, api_calls, api_sql, api_validated, rl_vars>>

ApiNext ==
    \/ Arrive /\ UNCHANGED <<th_vars, az_vars, pl_vars, rl_rejected>>
    \/ RequireApiKey /\ UNCHANGED <<th_vars, az_vars, pl_vars, rl_rejected>>
    \/ EnforceRateLimit /\ UNCHANGED <<th_vars, az_vars, pl_vars, rl_rejected>>
    \/ EnforcePermission /\ UNCHANGED <<th_vars, az_vars, pl_vars, rl_rejected>>
    \/ GetDbConnection /\ UNCHANGED <<th_vars, az_vars, pl_vars, rl_rejected>>
    \/ ValidateBody /\ UNCHANGED <<th_vars, az_vars, pl_vars, rl_rejected>>
    \/ Query /\ UNCHANGED <<th_vars, az_vars, pl_vars, rl_rejected>>
    \/ QueryNatural /\ UNCHANGED <<th_vars, az_vars, pl_vars, rl_rejected>>
    \/ ReleaseConnection /\ UNCHANGED <<th_vars, az_vars, pl_vars, rl_rejected>>

InitApi == ApiInit /\ ThIdle /\ AzIdle /\ PlIdle /\ BkIdle

SpecApi == InitApi /\ [][ApiNext]_vars

\* the role was resolved by the static convention alone
StaticallyResolved == az_role # NoRole /\ ~UsesDatabase(az_in.authz_backend, az_in.conn)

Blank(key) == \A i \in 1..Len(key) : key[i] = Space

\* the role word of a key of the form word or word:..., if it has that form
RoleWord(key) ==
    IF key # <<>> /\ key[1] \in Role /\ (Len(key) = 1 \/ key[2] = ":")
    THEN key[1] ELSE NoRole

StaticRoleOf(key) ==
    IF Blank(key) THEN "public"
    ELSE IF RoleWord(key) # NoRole THEN RoleWord(key)
    ELSE "member"

RoleRank(role) ==
    CASE role = "public" -> 1 [] role = "member" -> 2 [] role = "elder" -> 3
      [] role = "admin" -> 4

PermissionRank(permission) ==
    CASE permission = "query:public" -> 1 [] permission = "query:sensitive" -> 2
      [] permission = "query:sacred" -> 3 [] permission = "export:data" -> 4

\* C15: check_permission is true exactly for the pairs of the matrix: public
\* has query:public, and member, elder and admin each add one permission
\* (query:sensitive, query:sacred, export:data) to the set of the role below.
C15_PermissionMatrix ==
    az_allowed # NoCall =>
        \A permission \in Permission :
            az_allowed[permission] <=> PermissionRank(permission) <= RoleRank(az_role)

\* an elder was asked about every permission and is refused export:data only
C15_Witness ==
    /\ az_allowed # NoCall
    /\ az_role = "elder"
    /\ az_allowed["query:sacred"]
    /\ ~az_allowed["export:data"]

\* C16 as stated: a blank credential gives public; a credential that begins
\* with admin:, elder:, member: or public:, or is the bare word, gives that
\* role; every other credential gives member.
C16_PrefixAsWritten ==
    StaticallyResolved => az_role = StaticRoleOf(az_in.api_key)

\* C16 as amended: the same, of the credential trimmed of surrounding
\* whitespace and lowercased.
C16_PrefixOfNormalizedKey ==
    StaticallyResolved => az_role = StaticRoleOf(lower(strip(az_in.api_key)))

\* an opaque key that only contains a role word is a member
C16_Witness ==
    /\ StaticallyResolved
    /\ az_in.api_key = <<"x", "admin", ":">>
    /\ az_role = "member"

(***************************************************************************)
(* Claims about the request pipeline                                       *)
(***************************************************************************)
Range(seq) == {seq[i] : i \in 1..Len(seq)}

Finished == api_pc = "done"

\* the request got past its dependencies, to the validation of its body
ReachedBody == "validate_body" \in Range(api_trace)

Is4xx(code) == code >= 400 /\ code <= 499

\* C2: the rate limit check precedes authentication: whenever the credential
\* of a request has been authenticated, the limiter's check for that request
\* has already run, so a request that fails authentication has been counted.
C2_RateLimitBeforeAuthentication ==
    \A i \in 1..Len(api_trace) :
        api_trace[i] = "require_api_key"
            => \E j \in 1..(i - 1) : api_trace[j] = "enforce_rate_limit"

\* C3: every request that reaches a terminal outcome has made exactly one
\* call of log_query_event by the time its response is returned.
C3_ExactlyOneAuditCall == Finished => Len(api_audit) = 1

\* C4: an input that fails validation (here: a field that is malformed or
\* out of range) ends in a 4xx response on both entry paths, never in a 5xx.
C4_InvalidInputIs4xx ==
    (Finished /\ ReachedBody /\ QueryRequestErrors(api_req.obj) # {})
        => Is4xx(api_resp.code)

\* C5: no entry path accepts a candidate that the structured operation
\* validator rejects: an object that /query executes passes
\* StructuredOperationCandidate, as it must to be executed by /query/natural.
C5_NoPathLooserThanValidator ==
    (Finished /\ api_resp.status = "completed")
        => model_validate_candidate(api_req.obj).ok

\* the role the enforcement point resolves for the request lacks the
\* permission its route requires
LacksPermission(request) ==
    PermissionRank(request.required)
        > RoleRank(StaticRoleOf(lower(strip(request.x_api_key))))

\* C17: a request whose resolved role lacks the permission required by its
\* route is rejected with a 403, and no spatial operation is invoked for it.
C17_ForbiddenBeforeAnySpatialCall ==
    (Finished /\ "enforce_permission" \in Range(api_trace) /\ LacksPermission(api_req))
        => /\ api_resp.code = 403
           /\ api_calls = <<>>
           /\ api_sql = 0
           /\ "_execute_structured_operation" \notin Range(api_trace)

\* an authenticated member asked for a route that needs more than a member has
C17_Witness ==
    /\ Finished
    /\ api_req.x_api_key = <<"secret">>
    /\ api_req.required = "query:sacred"
    /\ LacksPermission(api_req)
    /\ api_trace = <<"require_api_key", "enforce_rate_limit", "enforce_permission">>
    /\ api_resp.code = 403

Dispatched == "_execute_structured_operation" \in Range(api_trace)

\* the table of the operation that is dispatched: the default when the key
\* is absent and, on the natural-language path, when it is blank
DispatchedTable(request) ==
    IF request.obj.table = None THEN DefaultTable
    ELSE LET trimmed == strip(request.obj.table[1])
         IN  IF trimmed = <<>> /\ request.endpoint = "natural" THEN DefaultTable
             ELSE trimmed

\* C18: nearest_neighbors is never called with a table outside the
\* allow-list: a nearest_neighbors operation that the validator accepted and
\* whose trimmed table is not in the allow-list fails in dispatch with the
\* not-permitted error, which lists the allowed tables, on both paths.
C18_TableAllowListEnforced ==
    /\ "nearest_neighbors" \in Range(api_calls)
          => DispatchedTable(api_req) \in allowed_query_tables
    /\ (/\ Dispatched
        /\ api_req.obj.operation = Some(<<"nearest_neighbors">>)
        /\ model_validate_candidate(api_req.obj).ok
        /\ DispatchedTable(api_req) \notin allowed_query_tables)
          => /\ api_resp.code = 400
             /\ api_resp.detail = {NotPermitted}
             /\ api_calls = <<>>
             /\ api_sql = 0

\* a prompt's nearest_neighbors operation on audit.query_log passed the
\* validator and was refused in dispatch
C18_Witness ==
    /\ Finished
    /\ Dispatched
    /\ api_req.endpoint = "natural"
    /\ api_validated = 1
    /\ api_req.obj.operation = Some(<<"nearest_neighbors">>)
    /\ api_req.obj.table = Some(<<"audit.query_log">>)
    /\ api_resp.detail = {NotPermitted}

\* the statement of a spatial helper was executed and the request failed
\* for what the backend did with it (an unsupported area unit is found
\* after the statement, in the helper itself)
BackendFailed ==
    /\ Finished
    /\ api_sql = 1
    /\ api_resp.status = "error"
    /\ api_resp.detail # {"Unsupported area unit"}

\* C19: a backend failure falls in exactly one of two categories: a database
\* error raised by the geometry engine gives a 400 whose detail is the fixed
\* generic message; any other failure gives a 500 with no internal detail.
C19_BackendFailureTwoCategories ==
    BackendFailed
        => \/ /\ api_resp.exc = "PsycopgError"
              /\ api_resp.code = 400
              /\ api_resp.detail = {"Invalid geometry, CRS, or query parameters."}
           \/ /\ api_resp.exc # "PsycopgError"
              /\ api_resp.code = 500
              /\ api_resp.detail = {}

\* the values of an audit row that are stored as they were given
Cleartext(entry) ==
    {entry.query_type} \cup entry.error_message.values \cup entry.data_sources
    \cup {entry.metadata.table}
    \cup {field[1] : field \in {entry.metadata.operation, entry.metadata.units} \ {None}}
    \cup (IF entry.user_id.kind = "sha256" THEN {} ELSE {entry.user_id.of})
    \cup (IF entry.query_text.kind = "redacted:sha256" THEN {} ELSE {entry.query_text.of})

\* the prompt and the credential of the request, as sent and trimmed
RawSecrets(call) ==
    {call.prompt, strip(call.prompt), call.x_api_key, strip(call.x_api_key)} \ {<<>>}

OmitsRequired(obj) ==
    /\ obj.operation # None
    /\ obj.operation[1] \in ALLOWED_OPERATIONS
    /\ MissingRequired(obj.operation[1], obj)

\* the errors of single fields, which either path reports before, and
\* instead of, the operation's requirement
FieldErrors(request) ==
    IF request.endpoint = "query" THEN QueryRequestErrors(request.obj)
    ELSE CandidateFieldErrors(request.obj)

Rejected ==
    /\ Is4xx(api_resp.code)
    /\ api_calls = <<>>
    /\ api_sql = 0

NamesRequirement == RequiresMessage(api_req.obj.operation[1]) \in api_resp.detail

\* C6 as stated: a request for one of the five operations that omits a
\* required field is rejected with a validation error naming the operation's
\* requirement, and no backend call is made, on either entry path.
C6_OmissionRejectedNamingRequirement ==
    (Finished /\ ReachedBody /\ OmitsRequired(api_req.obj))
        => (Rejected /\ NamesRequirement)

\* C6 as amended: such a request is rejected with a 4xx validation error and
\* no backend call is made, on either entry path; the error names the
\* operation's requirement whenever no single field of the request fails
\* its own check.
C6_OmissionRejected ==
    (Finished /\ ReachedBody /\ OmitsRequired(api_req.obj))
        => /\ Rejected
           /\ FieldErrors(api_req) = {} => NamesRequirement

C6_Witness ==
    /\ Finished
    /\ api_req.endpoint = "natural"
    /\ OmitsRequired(api_req.obj)
    /\ FieldErrors(api_req) = {}
    /\ api_validated = 1
    /\ NamesRequirement

\* C7: a candidate object with a key outside the recognized set fails
\* validation; its extra key is never dropped silently and its operation is
\* never executed.
C7_ExtraKeyNeverExecuted ==
    (Finished /\ api_req.obj.extra)
        => (api_resp.status # "completed" /\ api_calls = <<>>)

DecodableAt(text, i) == text[i] = "{" /\ raw_decode(text, i).ok

\* the decodable objects of a text that lie in no other decodable object
OutermostObjects(text) ==
    {i \in 1..Len(text) :
        /\ DecodableAt(text, i)
        /\ \A j \in 1..(i - 1) : DecodableAt(text, j) => raw_decode(text, j).end <= i}

OperationObjectCount(text) ==
    Cardinality({i \in OutermostObjects(text) : raw_decode(text, i).operation})

NothingValidatedOrExecuted ==
    /\ api_validated = 0
    /\ api_calls = <<>>
    /\ api_sql = 0

LastCheck == rl_last # NoCall

\* C9: for a bucket created at the current clock value, a check succeeds
\* exactly while fewer than capacity checks of it have succeeded since its
\* creation; so the first capacity calls succeed and each later call raises
\* RateLimitExceeded until time advances.
C9_FirstCapacityCallsSucceed ==
    (LastCheck /\ rl_last.k # NotFresh)
        => (rl_last.ok <=> rl_last.k < capacity(rl_cfg))

\* capacity 1: the first call succeeded and the second, at the same time, raised
C9_Witness ==
    /\ LastCheck
    /\ capacity(rl_cfg) = 1
    /\ rl_last.tracked
    /\ rl_last.k = 1
    /\ ~rl_last.ok

\* the first of the identifiers, in order of last successful check, that is tracked
LeastRecentlyUsed(lru, ids) ==
    lru[CHOOSE i \in 1..Len(lru) :
            /\ lru[i] \in ids
            /\ \A j \in 1..(i - 1) : lru[j] \notin ids]

BucketSet(buckets) == {buckets[i] : i \in 1..Len(buckets)}

AtCapUntracked ==
    /\ LastCheck
    /\ ~rl_last.tracked
    /\ Len(rl_last.swept) = rl_cfg.max_identifiers

IdleAt(bucket) == rl_last.now - bucket.updated

\* C11: a check at time t, whether it succeeds or raises, removes every
\* bucket last updated at least the TTL before t, and its sweep removes no
\* bucket idle for less than the TTL (such a bucket goes only as the
\* least-recently-used one, to make room); afterwards no tracked bucket has
\* t - last_update >= TTL.
C11_SweepRemovesExactlyStale ==
    LastCheck =>
        /\ \A b \in BucketSet(rl_last.before) :
               IdleAt(b) >= rl_cfg.bucket_ttl_seconds => b \notin BucketSet(rl_buckets)
        /\ \A b \in BucketSet(rl_last.before) :
               IdleAt(b) < rl_cfg.bucket_ttl_seconds
                   => \/ b.id \in BucketIds(rl_buckets)
                      \/ /\ ~rl_last.tracked
                         /\ Len(rl_last.swept) >= rl_cfg.max_identifiers
                         /\ b = Head(rl_last.swept)
        /\ \A b \in BucketSet(rl_buckets) : IdleAt(b) < rl_cfg.bucket_ttl_seconds

\* a check that raised swept a bucket of another identifier idle for exactly the TTL
C11_Witness ==
    /\ LastCheck
    /\ ~rl_last.ok
    /\ \E b \in BucketSet(rl_last.before) :
          /\ b.id # rl_last.id
          /\ IdleAt(b) = rl_cfg.bucket_ttl_seconds
          /\ b.id \notin BucketIds(rl_buckets)
    /\ \E b \in BucketSet(rl_last.before) :
          /\ IdleAt(b) = rl_cfg.bucket_ttl_seconds - 1
          /\ b.id \in BucketIds(rl_buckets)

\* C12: in every reachable state the number of tracked buckets is at most
\* max_identifiers (and no identifier is tracked twice).
C12_TrackedAtMostMaxIdentifiers ==
    /\ Len(rl_buckets) <= rl_cfg.max_identifiers
    /\ Cardinality(BucketIds(rl_buckets)) = Len(rl_buckets)

\* the bound is met, and the last check had to evict to keep it
C12_Witness ==
    /\ AtCapUntracked
    /\ rl_last.ok
    /\ Len(rl_buckets) = rl_cfg.max_identifiers
    /\ rl_cfg.max_identifiers = 2

\* the last check found a bucket for its identifier
CheckedTracked == LastCheck /\ rl_last.tracked

\* what the last check left of its identifier's tokens, given the scaled
\* tokens it had available for the decision
DecidedOn(available) ==
    /\ rl_last.ok <=> available >= Scaled(rl_cfg, 1)
    /\ BucketOf(rl_buckets, rl_last.id).tokens
          = available - (IF rl_last.ok THEN Scaled(rl_cfg, 1) ELSE 0)

Tracked(identifier) == identifier \in BucketIds(rl_buckets)

\* C14: under any interleaving of concurrent check calls the read-modify-write
\* of a bucket is atomic: as long as no refill has added to a bucket since it
\* was created, its tokens are its capacity less one per successful call (no
\* token spent twice or lost), so at most capacity calls have succeeded.
C14_NoTokenSpentTwiceOrLost ==
    \A i \in DOMAIN th_acct :
        (Tracked(i) /\ th_acct[i].pure)
            => /\ th_acct[i].spent <= capacity(rl_cfg)
               /\ BucketOf(rl_buckets, i).tokens
                     = Scaled(rl_cfg, capacity(rl_cfg) - th_acct[i].spent)

\* two calls for one identifier, read at the same clock value, are in flight
\* together: one is inside the locked block and finds the capacity spent, the
\* other waits for the lock
C14_Witness ==
    \E t1 \in DOMAIN th, t2 \in DOMAIN th :
        /\ th[t1].pc = "decide"
        /\ rl_lock = t1
        /\ th[t2].pc = "acquire"
        /\ th[t1].id = th[t2].id
        /\ th[t1].now = th[t2].now
        /\ th[t1].tracked
        /\ ~HasToken(rl_cfg, th[t1].bucket)
        /\ th_acct[th[t1].id].pure
        /\ th_acct[th[t1].id].spent = capacity(rl_cfg)

(***************************************************************************)
(* Claims about the LLM planner                                            *)
(***************************************************************************)
Posts == SelectSeq(pl_log, LAMBDA e : e.ev = "post")

Sleeps == SelectSeq(pl_log, LAMBDA e : e.ev = "sleep")

RECURSIVE TotalSleep(_)
TotalSleep(sleeps) == IF sleeps = <<>> THEN 0 ELSE Head(sleeps).ms + TotalSleep(Tail(sleeps))

\* self._max_retries: the constructor stores a negative argument as 0
ClientRetries == Max(pl_in.llm_max_retries, 0)

\* the provider was called and every request so far failed in transport
OnlyTransportFailures ==
    /\ Posts # <<>>
    /\ \A i \in DOMAIN Posts : Posts[i].outcome \in TransportFailures

\* C21: when every attempt fails in transport the client makes exactly
\* max_retries + 1 attempts and raises the unavailable error only after the
\* last; it sleeps between consecutive attempts only, 200 ms, 400 ms, ...
\* doubling, 200 * (2^max_retries - 1) ms in all, never after the last.
C21_RetriesThenUnavailable ==
    /\ (OnlyTransportFailures /\ Len(Posts) <= ClientRetries)
          => pl_pc = "attempt" /\ pl_out = NoOutcome
    /\ (OnlyTransportFailures /\ pl_pc = "done")
          => /\ Len(Posts) = ClientRetries + 1
             /\ pl_out.kind = "unavailable"
             /\ Len(pl_log) = 2 * ClientRetries + 1
             /\ \A k \in 1..ClientRetries :
                   /\ pl_log[2 * k - 1].ev = "post"
                   /\ pl_log[2 * k] = Slept(InitialDelay * 2 ^ (k - 1))
             /\ pl_log[Len(pl_log)].ev = "post"
             /\ TotalSleep(Sleeps) = InitialDelay * (2 ^ ClientRetries - 1)

\* three attempts failed in transport, with two sleeps between them
C21_Witness ==
    /\ pl_pc = "done"
    /\ OnlyTransportFailures
    /\ Len(Posts) = 3
    /\ TotalSleep(Sleeps) = 600
    /\ pl_out.kind = "unavailable"

\* C22: an attempt whose output is not valid JSON or not a JSON object
\* raises the output error at once: no attempt and no sleep follow it, also
\* when retries remain and earlier attempts failed in transport.
C22_MalformedOutputNotRetried ==
    \A i \in DOMAIN pl_log :
        pl_log[i].outcome \in Malformed
            => /\ i = Len(pl_log)
               /\ pl_pc = "done"
               /\ pl_out = Failure("output", MalformedMessage(pl_log[i].outcome))

\* after a transport failure and a sleep the second of three attempts
\* returned text that is not JSON
C22_Witness ==
    /\ pl_pc = "done"
    /\ ClientRetries = 2
    /\ Len(pl_log) = 3
    /\ pl_log[1].outcome \in TransportFailures
    /\ pl_log[2].ev = "sleep"
    /\ pl_log[3].outcome = "JSONDecodeError"
    /\ pl_out.kind = "output"

\* a control character other than the allowed ones
Unsupported(prompt) ==
    \E i \in DOMAIN prompt : prompt[i] \in ControlChars \ ALLOWED_PROMPT_CONTROL_CHARS

InputErrorBeforeProvider == pl_pc = "done" /\ pl_out.kind = "input" /\ pl_log = <<>>

\* C23: plan_operation_from_prompt raises the input error and never calls
\* the provider when the prompt is empty after trimming, longer than the
\* maximum, or has a control character other than newline, tab and carriage
\* return at any position of the raw prompt.
C23_RejectsControlCharacterAnywhere ==
    (/\ pl_pc # "start"
     /\ \/ strip(pl_in.prompt) = <<>>
        \/ Len(strip(pl_in.prompt)) > pl_in.llm_prompt_max_chars
        \/ Unsupported(pl_in.prompt))
        => InputErrorBeforeProvider

\* C23, amended: the three tests are made on the trimmed prompt, so a control
\* character that strip() removes from either end is dropped, not rejected.
C23_RejectsBadTrimmedPrompt ==
    (/\ pl_pc # "start"
     /\ \/ strip(pl_in.prompt) = <<>>
        \/ Len(strip(pl_in.prompt)) > pl_in.llm_prompt_max_chars
        \/ Unsupported(strip(pl_in.prompt)))
        => InputErrorBeforeProvider

\* a prompt of the permitted length with a NUL in it was rejected
C23_Witness ==
    /\ InputErrorBeforeProvider
    /\ Len(strip(pl_in.prompt)) <= pl_in.llm_prompt_max_chars
    /\ Unsupported(strip(pl_in.prompt))
    /\ pl_out.message = "Prompt contains unsupported control characters."

\* the last request failed below the HTTP exchange or with a non-2xx status
LastPostFailedInTransport ==
    /\ Posts # <<>>
    /\ Posts[Len(Posts)].outcome \in TransportFailures \cup {"ProtocolError"}

\* C24: every call ends in exactly one of four outcomes: a validated and
\* normalized operation, the input error (no provider call), the unavailable
\* error (transport failure after retries, or unsupported provider) or the
\* output error (output malformed or rejected by the validator); a transport
\* failure is never reported as an output error and no provider output
\* reaches the caller without passing the validator.
C24_FourDisjointOutcomes ==
    pl_pc = "done"
        => /\ pl_out.kind \in {"operation", "input", "unavailable", "output"}
           /\ pl_out.kind = "input"
                <=> sanitize_prompt(pl_in.prompt, pl_in.llm_prompt_max_chars) # NoOutcome
           /\ pl_out.kind = "unavailable"
                <=> /\ pl_out.kind # "input"
                    /\ ~ProviderSupported(pl_in) \/ LastPostFailedInTransport
           /\ pl_out.kind = "operation"
                => /\ model_validate_candidate(pl_candidate).ok
                   /\ pl_out.value = model_validate_candidate(pl_candidate).value

(***************************************************************************)
(* Claims about grounding                                                  *)
(***************************************************************************)
\* the request was answered with a QueryResponse
Answered == Finished /\ api_resp.status \in {"completed", "pending"}

Verified(entry) == entry.verification = "verified"

CameBack == rl_last # NoCall /\ rl_rejected.before # Never

\* C27: a refusal is never permanent: for every configuration that can be
\* constructed, an identifier refused by check that is next checked a full
\* window or more later, with no check of it in between, is accepted.
C27_RejectionNeverPermanent ==
    (CameBack /\ rl_last.now >= rl_rejected.before + rl_cfg.window_seconds)
        => rl_last.ok

\* C28: the successful checks of an identifier in an interval of length d
\* are at most capacity + d * refill_rate; in particular an identifier that
\* was refused is not accepted again at that same clock value, whatever
\* other identifiers are checked and buckets evicted in between.
C28_NotAcceptedAgainAtSameClock ==
    (CameBack /\ rl_last.now = rl_rejected.before) => ~rl_last.ok

\* the bucket the last check tested for a token: the refilled tracked
\* bucket, or a full new one
Tested ==
    IF rl_last.tracked
    THEN refill(rl_cfg, BucketOf(rl_last.swept, rl_last.id), rl_last.now)
    ELSE [id |-> rl_last.id, tokens |-> Scaled(rl_cfg, capacity(rl_cfg)),
          updated |-> rl_last.now]

\* the buckets the last check removed
Removed ==
    {i \in 1..Len(rl_last.before) : rl_last.before[i].id \notin BucketIds(rl_buckets)}

\* C29: a check that raises RateLimitExceeded consumes no token, inserts no
\* bucket, leaves the least-recently-used order as it was and removes no
\* bucket idle for less than the TTL; a successful check consumes exactly
\* one token and leaves its identifier most recently used.
C29_RejectedCheckKeepsBuckets ==
    rl_last # NoCall =>
        IF ~rl_last.ok
        THEN /\ BucketIdSeq(rl_buckets) = BucketIdSeq(rl_last.swept)
             /\ \A i \in 1..Len(rl_buckets) :
                   /\ rl_buckets[i].tokens >= rl_last.swept[i].tokens
                   /\ rl_buckets[i].id # rl_last.id => rl_buckets[i] = rl_last.swept[i]
             /\ \A i \in Removed :
                   rl_last.now - rl_last.before[i].updated >= rl_cfg.bucket_ttl_seconds
        ELSE /\ rl_buckets # <<>>
             /\ rl_buckets[Len(rl_buckets)].id = rl_last.id
             /\ rl_buckets[Len(rl_buckets)].tokens = Tested.tokens - Scaled(rl_cfg, 1)

\* a tracked identifier that is not the most recently used is refused
\* after its bucket has gained tokens
C29_Witness ==
    /\ rl_last # NoCall
    /\ ~rl_last.ok
    /\ rl_last.tracked
    /\ Len(rl_buckets) >= 2
    /\ rl_buckets[1].id = rl_last.id
    /\ rl_buckets[1].tokens > rl_last.swept[1].tokens

(***************************************************************************)
(* Claims about the audit insert and the request's transaction             *)
(***************************************************************************)
\* the audit inserts of an error outcome that the database accepted
ErrorAudits ==
    {i \in DOMAIN api_audit :
        /\ api_audit[i].status \in {"invalid_parameters", "db_error", "parse_error"}
        /\ api_audit[i].stored}

\* C30: the audit record of a request that ends in an error response is
\* persisted: once the connection is released after the handler raised
\* its HTTP error, the insert made on it is committed, not rolled back.
C30_ErrorAuditIsCommitted ==
    (Finished /\ ErrorAudits # {}) => api_conn = "committed"

====
